---- MODULE Spec2Model ----
(***************************************************************************)
(* Model of src/main.py: the F1 championship simulation.                   *)
(*                                                                         *)
(* Real-valued attributes (difficulty, speed_bias) are held in thousandths *)
(* and performance scores in hundredths, so that round(total_score, 2) is  *)
(* an explicit conversion from thousandths to hundredths.                  *)
(* A dict is a sequence of <<key, value>> pairs in insertion order, except *)
(* overall_standings, which is a function from names to points whose item  *)
(* order is the roster order (the order the names were inserted in).       *)
(***************************************************************************)
EXTENDS Integers, Sequences, FiniteSets, TLC

VARIABLES
    available_drivers,      \* roster passed to run_championship
    available_tracks,       \* track sequence passed to run_championship
    overall_standings,      \* name -> accumulated points
    i,                      \* number of the current round (0 before the first)
    luck_factors,           \* luck draws of the race whose ranking is live
    race_ranking,           \* Ranking of the current regular race
    current_classification, \* <<>> while unbound, else <<sorted items>>
    contending_drivers,     \* entrants of the tie-break race
    tie_breaker_results,    \* Ranking of the tie-break race
    result,                 \* <<>> until run_championship returns, else <<table>>
    error,                  \* the exception run_championship ended with
    races_run,              \* number of calls of run_race so far
    tie_races,              \* number of those on EXTRA_TIE_TRACK
    pc                      \* position in run_championship

vars == <<available_drivers, available_tracks, overall_standings, i,
          luck_factors, race_ranking, current_classification,
          contending_drivers, tie_breaker_results, result, error,
          races_run, tie_races, pc>>

----------------------------------------------------------------------------
(* 1. DATA *)

DRIVERS ==
    << [name |-> "Juan Manuel Fangio", skill |-> 10, consistency |-> 7],
       [name |-> "Michael Schumacher", skill |-> 8,  consistency |-> 10],
       [name |-> "Max Verstappen",     skill |-> 10, consistency |-> 9] >>

TRACKS ==
    << [name |-> "Monaco",      difficulty |-> 800, speed_bias |-> 200],
       [name |-> "Suzuka",      difficulty |-> 750, speed_bias |-> 800],
       [name |-> "Silverstone", difficulty |-> 600, speed_bias |-> 1000] >>

EXTRA_TIE_TRACK ==
    [name |-> "Nurburgring", difficulty |-> 950, speed_bias |-> 600]

POINTS_SYSTEM == (1 :> 25) @@ (2 :> 18) @@ (3 :> 15)

MIN_LUCK == 0 - 9
MAX_LUCK == 9

TIE_BREAK_FLAG == 1

----------------------------------------------------------------------------
(* Inputs *)

\* Longest track sequence a season is run on.
MaxTracks == 3

\* A fourth entrant, for rosters longer than the points table.
EXTRA_DRIVER == [name |-> "Ayrton Senna", skill |-> 9, consistency |-> 8]

\* A track whose attributes have three decimals, so that rounding acts.
FINE_TRACK == [name |-> "Interlagos", difficulty |-> 802, speed_bias |-> 201]

TrackAt(k) == TRACKS[((k - 1) % Len(TRACKS)) + 1]

Rosters ==
    { <<>>, SubSeq(DRIVERS, 1, 2), DRIVERS, DRIVERS \o <<EXTRA_DRIVER>> }

TrackSeqs ==
    { [k \in 1..n |-> TrackAt(k)] : n \in 0..MaxTracks } \cup { <<FINE_TRACK>> }

\* The seasons run. A roster longer than the points table does not get past
\* its first race, so it is entered in the seasons of up to two tracks only.
Configurations ==
    { c \in Rosters \X TrackSeqs :
        Len(c[1]) <= Cardinality(DOMAIN POINTS_SYSTEM) \/ Len(c[2]) <= 2 }

----------------------------------------------------------------------------
(* 2. HELPER FUNCTIONS *)

\* round(x, 2): thousandths to the nearest hundredth, halves to even.
Round2(x) ==
    LET q == x \div 10
        r == x % 10
    IN  IF r > 5 \/ (r = 5 /\ q % 2 = 1) THEN q + 1 ELSE q

\* Variant: the two track attributes applied to the wrong driver attribute.
calculate_driver_score_swapped(driver, track, luck_factor) ==
    LET skill_impact == driver.skill * track.speed_bias
        speed_impact == driver.consistency * track.difficulty
        total_score  == skill_impact + speed_impact + luck_factor * 1000
    IN  Round2(total_score)

calculate_driver_score(driver, track, luck_factor) ==
    LET skill_impact == driver.skill * track.difficulty
        speed_impact == driver.consistency * track.speed_bias
        total_score  == skill_impact + speed_impact + luck_factor * 1000
    IN  Round2(total_score)

\* d[key] = value on a dict held as a sequence of pairs.
DictSet(d, key, value) ==
    IF \E k \in 1..Len(d) : d[k][1] = key
    THEN [k \in 1..Len(d) |-> IF d[k][1] = key THEN <<key, value>> ELSE d[k]]
    ELSE Append(d, <<key, value>>)

RECURSIVE InsertDesc(_, _)
\* Puts item behind every entry whose value is not smaller than its own.
InsertDesc(item, sorted) ==
    IF sorted = <<>> THEN <<item>>
    ELSE IF Head(sorted)[2] >= item[2]
         THEN <<Head(sorted)>> \o InsertDesc(item, Tail(sorted))
         ELSE <<item>> \o sorted

RECURSIVE InsertDescUnstable(_, _)
\* Puts item in front of the entries with an equal value.
InsertDescUnstable(item, sorted) ==
    IF sorted = <<>> THEN <<item>>
    ELSE IF Head(sorted)[2] > item[2]
         THEN <<Head(sorted)>> \o InsertDescUnstable(item, Tail(sorted))
         ELSE <<item>> \o sorted

RECURSIVE SortedDesc(_)
\* sorted(items, key=lambda item: item[1], reverse=True)
SortedDesc(items) ==
    IF items = <<>> THEN <<>>
    ELSE InsertDesc(items[Len(items)],
                    SortedDesc(SubSeq(items, 1, Len(items) - 1)))

RECURSIVE SortedDescUnstable(_)
\* Variant sort: entries with equal values come out in reverse input order.
SortedDescUnstable(items) ==
    IF items = <<>> THEN <<>>
    ELSE InsertDescUnstable(items[Len(items)],
                            SortedDescUnstable(SubSeq(items, 1, Len(items) - 1)))

\* Variant: ranking by a sort that is not stable.
rank_drivers_unstable(race_scores) == SortedDescUnstable(race_scores)

rank_drivers(race_scores) == SortedDesc(race_scores)

RECURSIVE race_performance_map(_, _, _, _)
\* The dict run_race has built after its first n loop iterations.
race_performance_map(drivers, current_track, luck, n) ==
    IF n = 0 THEN <<>>
    ELSE DictSet(race_performance_map(drivers, current_track, luck, n - 1),
                 drivers[n].name,
                 calculate_driver_score(drivers[n], current_track, luck[n]))

run_race(drivers, current_track, luck) ==
    rank_drivers(race_performance_map(drivers, current_track, luck, Len(drivers)))

----------------------------------------------------------------------------
(* 3. MAIN FLOW FUNCTIONS *)

NameSet(drivers) == { drivers[k].name : k \in 1..Len(drivers) }

\* {driver["name"]: 0 for driver in available_drivers}
ZeroStandings(drivers) == [n \in NameSet(drivers) |-> 0]

\* overall_standings.items(): one pair per name, in insertion order.
Items(standings, drivers) ==
    [k \in 1..Len(drivers) |-> <<drivers[k].name, standings[drivers[k].name]>>]

RECURSIVE AwardFromAssign(_, _, _)
\* Variant: the points are assigned (=) instead of added (+=).
AwardFromAssign(standings, ranking, position) ==
    IF position > Len(ranking) THEN [standings |-> standings, ok |-> TRUE]
    ELSE IF position \notin DOMAIN POINTS_SYSTEM
         THEN [standings |-> standings, ok |-> FALSE]
         ELSE LET driver_name == ranking[position][1]
                  points == POINTS_SYSTEM[position]
              IN  AwardFromAssign([standings EXCEPT ![driver_name] = points],
                                  ranking, position + 1)

RECURSIVE AwardFrom(_, _, _)
\* The loop over enumerate(race_ranking, start=1) from the given position on:
\* ok is FALSE when POINTS_SYSTEM[position] raised KeyError, and standings
\* holds the additions made up to that point.
AwardFrom(standings, ranking, position) ==
    IF position > Len(ranking) THEN [standings |-> standings, ok |-> TRUE]
    ELSE IF position \notin DOMAIN POINTS_SYSTEM
         THEN [standings |-> standings, ok |-> FALSE]
         ELSE LET driver_name == ranking[position][1]
                  points == POINTS_SYSTEM[position]
              IN  AwardFrom([standings EXCEPT ![driver_name] = @ + points],
                            ranking, position + 1)

RECURSIVE SeqMax(_)
SeqMax(s) ==
    IF Len(s) = 1 THEN s[1]
    ELSE LET m == SeqMax(Tail(s)) IN IF s[1] >= m THEN s[1] ELSE m

highest_score(final_standings_list) ==
    SeqMax([k \in 1..Len(final_standings_list) |-> final_standings_list[k][2]])

\* Variant: only the head of the classification counts as leader.
tied_leaders_first(final_standings_list) == <<final_standings_list[1]>>

tied_leaders(final_standings_list) ==
    SelectSeq(final_standings_list,
              LAMBDA driver : driver[2] = highest_score(final_standings_list))

\* Variant: the whole roster enters the tie-break race.
contending_all(drivers, leaders) == drivers

contending(drivers, leaders) ==
    LET tied_driver_names == { leaders[k][1] : k \in 1..Len(leaders) }
    IN  SelectSeq(drivers, LAMBDA driver : driver.name \in tied_driver_names)

\* Variant: the table is built from the tied drivers only.
tie_break_table_contenders(drivers, winner_name) ==
    [ZeroStandings(contending_drivers) EXCEPT ![winner_name] = TIE_BREAK_FLAG]

\* Variant: the winner keeps a first place's points as its value.
tie_break_table_points(drivers, winner_name) ==
    [ZeroStandings(drivers) EXCEPT ![winner_name] = POINTS_SYSTEM[1]]

tie_break_table(drivers, winner_name) ==
    [ZeroStandings(drivers) EXCEPT ![winner_name] = TIE_BREAK_FLAG]

\* display_final_results: the first entry of the sorted final table.
winner(championship_results, drivers) ==
    SortedDesc(Items(championship_results, drivers))[1]

----------------------------------------------------------------------------
(* run_championship *)

Luck == MIN_LUCK..MAX_LUCK

Init ==
    /\ \E c \in Configurations :
         /\ available_drivers = c[1]
         /\ available_tracks = c[2]
    /\ overall_standings = ZeroStandings(available_drivers)
    /\ i = 0
    /\ luck_factors = <<>>
    /\ race_ranking = <<>>
    /\ current_classification = <<>>
    /\ contending_drivers = <<>>
    /\ tie_breaker_results = <<>>
    /\ result = <<>>
    /\ error = "none"
    /\ races_run = 0
    /\ tie_races = 0
    /\ pc = "loop"

\* Next round of the for loop, up to run_race's return.
RunRegularRace ==
    /\ pc = "loop"
    /\ i < Len(available_tracks)
    /\ \E luck \in [1..Len(available_drivers) -> Luck] :
         /\ luck_factors' = luck
         /\ race_ranking' = run_race(available_drivers, available_tracks[i + 1], luck)
    /\ i' = i + 1
    /\ races_run' = races_run + 1
    /\ pc' = "ranked"
    /\ UNCHANGED <<available_drivers, available_tracks, overall_standings,
                   current_classification, contending_drivers,
                   tie_breaker_results, result, error, tie_races>>

\* The rest of the round: points for each position, then the classification.
\* race_ranking is not read again before the next round assigns it, and is
\* gone with the frame when KeyError propagates, so the model lets go of it
\* (and of the luck draws) here.
AwardPoints ==
    /\ pc = "ranked"
    /\ LET awarded == AwardFrom(overall_standings, race_ranking, 1)
       IN  /\ overall_standings' = awarded.standings
           /\ IF awarded.ok
              THEN /\ current_classification' =
                        <<SortedDesc(Items(awarded.standings, available_drivers))>>
                   /\ race_ranking' = <<>>
                   /\ luck_factors' = <<>>
                   /\ pc' = "loop"
                   /\ error' = error
              ELSE /\ pc' = "error"
                   /\ error' = "KeyError"
                   /\ race_ranking' = <<>>
                   /\ luck_factors' = <<>>
                   /\ UNCHANGED current_classification
    /\ UNCHANGED <<available_drivers, available_tracks, i, contending_drivers,
                   tie_breaker_results, result, races_run, tie_races>>

SeasonOver == pc = "loop" /\ i = Len(available_tracks)

\* list(current_classification) with the name never assigned.
RaiseUnbound ==
    /\ SeasonOver
    /\ current_classification = <<>>
    /\ pc' = "error"
    /\ error' = "UnboundLocalError"
    /\ UNCHANGED <<available_drivers, available_tracks, overall_standings, i,
                   luck_factors, race_ranking, current_classification,
                   contending_drivers, tie_breaker_results, result,
                   races_run, tie_races>>

\* max() of an empty classification.
RaiseEmptyMax ==
    /\ SeasonOver
    /\ current_classification = << <<>> >>
    /\ pc' = "error"
    /\ error' = "ValueError"
    /\ UNCHANGED <<available_drivers, available_tracks, overall_standings, i,
                   luck_factors, race_ranking, current_classification,
                   contending_drivers, tie_breaker_results, result,
                   races_run, tie_races>>

\* A single leader: return overall_standings.
ReturnStandings ==
    /\ SeasonOver
    /\ Len(current_classification) = 1
    /\ current_classification[1] # <<>>
    /\ Len(tied_leaders(current_classification[1])) = 1
    /\ result' = <<overall_standings>>
    /\ pc' = "done"
    /\ UNCHANGED <<available_drivers, available_tracks, overall_standings, i,
                   luck_factors, race_ranking, current_classification,
                   contending_drivers, tie_breaker_results, error,
                   races_run, tie_races>>

\* Several leaders: pick the entrants of the tie-break race.
AnnounceTieBreak ==
    /\ SeasonOver
    /\ Len(current_classification) = 1
    /\ current_classification[1] # <<>>
    /\ Len(tied_leaders(current_classification[1])) # 1
    /\ contending_drivers' =
         contending(available_drivers, tied_leaders(current_classification[1]))
    /\ pc' = "tie_break"
    /\ UNCHANGED <<available_drivers, available_tracks, overall_standings, i,
                   luck_factors, race_ranking, current_classification,
                   tie_breaker_results, result, error, races_run, tie_races>>

\* run_race(contending_drivers, EXTRA_TIE_TRACK)
RunTieBreak ==
    /\ pc = "tie_break"
    /\ \E luck \in [1..Len(contending_drivers) -> Luck] :
         /\ luck_factors' = luck
         /\ tie_breaker_results' = run_race(contending_drivers, EXTRA_TIE_TRACK, luck)
    /\ races_run' = races_run + 1
    /\ tie_races' = tie_races + 1
    /\ pc' = "tie_ranked"
    /\ UNCHANGED <<available_drivers, available_tracks, overall_standings, i,
                   race_ranking, current_classification, contending_drivers,
                   result, error>>

\* The top entry of the tie-break Ranking takes the flag value.
CrownWinner ==
    /\ pc = "tie_ranked"
    /\ LET winner_name == tie_breaker_results[1][1]
       IN  overall_standings' = tie_break_table(available_drivers, winner_name)
    /\ result' = <<overall_standings'>>
    /\ pc' = "done"
    /\ UNCHANGED <<available_drivers, available_tracks, i, luck_factors,
                   race_ranking, current_classification, contending_drivers,
                   tie_breaker_results, error, races_run, tie_races>>

Next ==
    \/ RunRegularRace
    \/ AwardPoints
    \/ RaiseUnbound
    \/ RaiseEmptyMax
    \/ ReturnStandings
    \/ AnnounceTieBreak
    \/ RunTieBreak
    \/ CrownWinner

Spec == Init /\ [][Next]_vars

----------------------------------------------------------------------------
(* Properties *)

TypeOK ==
    /\ pc \in {"loop", "ranked", "tie_break", "tie_ranked", "done", "error"}
    /\ error \in {"none", "KeyError", "ValueError", "UnboundLocalError"}
    /\ i \in 0..Len(available_tracks)
    /\ DOMAIN overall_standings = NameSet(available_drivers)

Names == NameSet(available_drivers)

\* The race whose Ranking is live, its entrants and its track.
RaceRanked == pc \in {"ranked", "tie_ranked"}
LiveRanking == IF pc = "ranked" THEN race_ranking ELSE tie_breaker_results
LiveEntrants == IF pc = "ranked" THEN available_drivers ELSE contending_drivers
LiveTrack == IF pc = "ranked" THEN available_tracks[i] ELSE EXTRA_TIE_TRACK

RankedNames(ranking) == { ranking[p][1] : p \in 1..Len(ranking) }

\* Position of a name in a list of drivers.
InputIndex(drivers, name) == CHOOSE k \in 1..Len(drivers) : drivers[k].name = name

\* The competitors holding the maximum of the accumulated points.
Leaders ==
    { n \in Names : \A m \in Names : overall_standings[n] >= overall_standings[m] }

RECURSIVE SumPoints(_, _)
SumPoints(standings, names) ==
    IF names = {} THEN 0
    ELSE LET n == CHOOSE x \in names : TRUE
         IN  standings[n] + SumPoints(standings, names \ {n})

RECURSIVE Allocated(_)
\* Points one race hands out to n finishers.
Allocated(n) ==
    IF n = 0 THEN 0
    ELSE (IF n \in DOMAIN POINTS_SYSTEM THEN POINTS_SYSTEM[n] ELSE 0) + Allocated(n - 1)

\* C1: for a roster of at least 2 and a non-empty track sequence, the table
\* run_championship returns has exactly one competitor whose value is strictly
\* greater than the value of every other competitor.
C1_SingleChampion ==
    (pc = "done" /\ Len(available_drivers) >= 2 /\ Len(available_tracks) >= 1) =>
        Cardinality({ n \in Names :
            \A m \in Names \ {n} : result[1][n] > result[1][m] }) = 1

C1_Witness ==
    /\ pc = "done"
    /\ tie_races = 1
    /\ Len(available_drivers) = 3
    /\ Len(contending_drivers) = 3

\* C2: once all regular tracks are raced, a single holder of the maximum makes
\* run_championship return the accumulated standings unchanged without a
\* further race; two or more holders make it run exactly one more race, on
\* the tie-break track, entered by exactly the holders of the maximum.
C2_Step ==
    /\ (SeasonOver /\ i >= 1 /\ Cardinality(Leaders) = 1) =>
          /\ pc' = "done"
          /\ result' = <<overall_standings>>
          /\ overall_standings' = overall_standings
          /\ races_run' = races_run
          /\ tie_races' = 0
    /\ (SeasonOver /\ i >= 1 /\ Cardinality(Leaders) >= 2) =>
          /\ pc' = "tie_break"
          /\ NameSet(contending_drivers') = Leaders
          /\ Len(contending_drivers') = Cardinality(Leaders)
          /\ races_run' = races_run
    /\ (pc = "tie_break") =>
          /\ pc' = "tie_ranked"
          /\ races_run' = races_run + 1
          /\ tie_races' = 1
          /\ RankedNames(tie_breaker_results') = Leaders
          /\ Len(tie_breaker_results') = Cardinality(Leaders)
          /\ \A k \in 1..Len(contending_drivers) :
                <<contending_drivers[k].name,
                  calculate_driver_score(contending_drivers[k], EXTRA_TIE_TRACK,
                                         luck_factors'[k])>>
                    \in { tie_breaker_results'[p] : p \in 1..Len(tie_breaker_results') }
    /\ (pc = "tie_ranked") =>
          /\ pc' = "done"
          /\ races_run' = races_run

C2_TieBreakTriggering == [][C2_Step]_vars

C2_Witness ==
    /\ pc = "tie_ranked"
    /\ Len(available_drivers) = 3
    /\ Len(contending_drivers) = 2
    /\ RankedNames(tie_breaker_results) = NameSet(contending_drivers)

\* C3: whenever a tie-break race was run, the returned table has an entry for
\* every competitor of the roster, 1 for the first of the tie-break Ranking
\* and 0 for everybody else.
C3_TieBreakTable ==
    (pc = "done" /\ tie_races >= 1) =>
        /\ DOMAIN result[1] = Names
        /\ \A n \in Names :
              result[1][n] = IF n = tie_breaker_results[1][1] THEN 1 ELSE 0

C3_Witness ==
    /\ pc = "done"
    /\ tie_races = 1
    /\ Len(available_drivers) = 3
    /\ Len(contending_drivers) = 2
    /\ \E n \in Names : n \notin NameSet(contending_drivers) /\ result[1][n] = 0

\* C4: with 4 or more competitors in the Ranking the award of points
\* completes, and everybody from the 4th place down keeps their total.
C4_Step ==
    (pc = "ranked" /\ Len(race_ranking) >= 4) =>
        /\ pc' = "loop"
        /\ \A p \in 4..Len(race_ranking) :
              overall_standings'[race_ranking[p][1]] =
                  overall_standings[race_ranking[p][1]]

C4_UnrankedPositionYieldsZero == [][C4_Step]_vars

\* C5: during the regular season the standings have one entry per competitor,
\* all 0 at the start; after k races are applied the entries sum to k times
\* the points of one race (58 for three competitors); no entry decreases.
RacesApplied == IF pc = "ranked" THEN i - 1 ELSE i

C5_State ==
    (pc \in {"loop", "ranked"}) =>
        /\ DOMAIN overall_standings = Names
        /\ SumPoints(overall_standings, Names) =
              RacesApplied * Allocated(Len(available_drivers))
        /\ (Len(available_drivers) = 3) =>
              SumPoints(overall_standings, Names) = 58 * RacesApplied
        /\ (RacesApplied = 0) => \A n \in Names : overall_standings[n] = 0

C5_Step ==
    (pc \in {"loop", "ranked"}) =>
        \A n \in Names : overall_standings'[n] >= overall_standings[n]

C5_StandingsAccumulate == [](C5_State) /\ [][C5_Step]_vars

C5_Witness ==
    /\ pc = "loop"
    /\ i = 2
    /\ Len(available_drivers) = 3
    /\ SumPoints(overall_standings, Names) = 116

\* C6: the Ranking run_race returns is the stable descending sort of its
\* input: same length, every entrant exactly once with the score computed for
\* it, non-increasing by score, equal scores in input order.
C6_StableDescendingRanking ==
    (RaceRanked /\ Len(LiveEntrants) >= 1) =>
        /\ Len(LiveRanking) = Len(LiveEntrants)
        /\ \A k \in 1..Len(LiveEntrants) :
              Cardinality({ p \in 1..Len(LiveRanking) :
                  LiveRanking[p] =
                      <<LiveEntrants[k].name,
                        calculate_driver_score(LiveEntrants[k], LiveTrack,
                                               luck_factors[k])>> }) = 1
        /\ \A p, q \in 1..Len(LiveRanking) :
              p < q =>
                  /\ LiveRanking[p][2] >= LiveRanking[q][2]
                  /\ (LiveRanking[p][2] = LiveRanking[q][2]) =>
                        InputIndex(LiveEntrants, LiveRanking[p][1]) <
                            InputIndex(LiveEntrants, LiveRanking[q][1])

C6_Witness ==
    /\ pc = "ranked"
    /\ Len(race_ranking) = 3
    /\ race_ranking[1][2] = race_ranking[2][2]
    /\ luck_factors[InputIndex(available_drivers, race_ranking[1][1])] #
          luck_factors[InputIndex(available_drivers, race_ranking[2][1])]

\* C7: an empty roster or an empty track sequence makes run_championship fail
\* with InvalidConfiguration, without running anything first.
C7_InvalidConfiguration ==
    (available_drivers = <<>> \/ available_tracks = <<>>) =>
        \/ (pc = "loop" /\ i = 0 /\ error = "none")
        \/ (pc = "error" /\ error = "InvalidConfiguration")

\* C8 (as stated): DRIVERS on Monaco with every luck draw 0 score 8.4, 8.4
\* and 9.8; competitor 3 comes first, then competitor 1, then competitor 2.
MonacoNoLuck ==
    /\ pc = "ranked"
    /\ available_drivers = DRIVERS
    /\ available_tracks[i] = TRACKS[1]
    /\ luck_factors = <<0, 0, 0>>

C8_Original ==
    MonacoNoLuck =>
        race_ranking = << <<DRIVERS[3].name, 980>>,
                          <<DRIVERS[1].name, 840>>,
                          <<DRIVERS[2].name, 840>> >>

\* C8 (amended): DRIVERS on Monaco with every luck draw 0 score 9.4, 8.4 and
\* 9.8; competitor 3 comes first, competitor 1 second and competitor 2 third,
\* and no two of them are tied.
C8_MonacoScores ==
    MonacoNoLuck =>
        race_ranking = << <<DRIVERS[3].name, 980>>,
                          <<DRIVERS[1].name, 940>>,
                          <<DRIVERS[2].name, 840>> >>

C8_Witness == MonacoNoLuck /\ Len(race_ranking) = 3

\* C9: for a roster of at least 2 and at least 1 track, the value
\* display_final_results reads for the champion is 1 exactly when a tie-break
\* race was run.
C9_FlagMeansTieBreak ==
    (pc = "done" /\ Len(available_drivers) >= 2 /\ Len(available_tracks) >= 1) =>
        ((winner(result[1], available_drivers)[2] = 1) <=> (tie_races >= 1))

C9_Witness ==
    /\ pc = "done"
    /\ tie_races = 1
    /\ Len(available_drivers) = 2
    /\ winner(result[1], available_drivers)[2] = 1

\* C10: at most one tie-break race is run, and only after every regular track
\* was raced; its first entry is the champion; every run that has ended
\* consists of len(tracks) or len(tracks) + 1 races.
C10_RaceCount ==
    /\ tie_races <= 1
    /\ (pc \in {"tie_break", "tie_ranked"} \/ tie_races = 1) =>
          i = Len(available_tracks)
    /\ (pc = "done" /\ tie_races = 1) =>
          winner(result[1], available_drivers)[1] = tie_breaker_results[1][1]
    /\ (pc \in {"done", "error"}) =>
          races_run \in {Len(available_tracks), Len(available_tracks) + 1}
====
